---- MODULE Spec2Model ----
(***************************************************************************)
(* MBUtil (mbutil/util.py): import of a directory tree of tiles into an    *)
(* MBTiles archive (disk_to_mbtiles) and export of an archive to a         *)
(* directory tree (mbtiles_to_disk).                                       *)
(*                                                                         *)
(* Text (directory names, file names, extensions) is a sequence of         *)
(* one-character strings, so that int(), str(), split() and the "%03d"     *)
(* formats are computed character by character.  Bytes are sequences of    *)
(* small integers.                                                         *)
(***************************************************************************)
EXTENDS Integers, Sequences, FiniteSets, TLC

(***************************************************************************)
(* Bounds of the model.                                                    *)
(***************************************************************************)
\* Largest number of tile files in a source tree.
MaxFiles == 2
\* Largest zoom level of the flip_y specification.
MaxZoom == 5
\* Largest quotient tile_id div n_columns of the coordinate specification.
MaxQuot == 2

(***************************************************************************)
(* Text primitives of the runtime.                                         *)
(***************************************************************************)
Digits == <<"0", "1", "2", "3", "4", "5", "6", "7", "8", "9">>

DigitVal(c) == (CHOOSE i \in 1..10 : Digits[i] = c) - 1

IsDigit(c) == \E i \in 1..10 : Digits[i] = c

\* int(s) succeeds: a non-empty run of decimal digits.
IsInt(s) == Len(s) > 0 /\ \A i \in 1..Len(s) : IsDigit(s[i])

RECURSIVE int(_)
int(s) ==
    IF Len(s) = 0 THEN 0
    ELSE 10 * int(SubSeq(s, 1, Len(s) - 1)) + DigitVal(s[Len(s)])

RECURSIVE strNat(_)
strNat(n) ==
    IF n < 10 THEN <<Digits[n + 1]>>
    ELSE strNat(n \div 10) \o <<Digits[(n % 10) + 1]>>

\* str(n), also "%s" % n and "%d" % n.
str(n) == IF n < 0 THEN <<"-">> \o strNat(-n) ELSE strNat(n)

RECURSIVE zeros(_)
zeros(k) == IF k <= 0 THEN <<>> ELSE <<"0">> \o zeros(k - 1)

\* "%0<w>d" % n: zero padding to at least w characters, the sign first.
fmt0(w, n) ==
    IF n < 0 THEN <<"-">> \o zeros(w - 1 - Len(strNat(-n))) \o strNat(-n)
    ELSE zeros(w - Len(strNat(n))) \o strNat(n)

\* current_file.split('.', 1): the index of the first dot, 0 when none.
FirstDot(s) ==
    IF \E i \in 1..Len(s) : s[i] = "."
    THEN CHOOSE i \in 1..Len(s) : s[i] = "." /\ \A j \in 1..(i - 1) : s[j] # "."
    ELSE 0

split_name(s) == SubSeq(s, 1, FirstDot(s) - 1)

split_ext(s) == SubSeq(s, FirstDot(s) + 1, Len(s))

RECURSIVE pow(_, _)
pow(b, e) == IF e = 0 THEN 1 ELSE b * pow(b, e - 1)

\* math.ceil(a / (num/den)) for a >= 0 and a positive rational num/den.
ceil_div(a, num, den) == ((a * den) + num - 1) \div num

\* The runtime's round(): halves away from zero, of the quotient a / b, b > 0.
round_half_away(a, b) ==
    IF a >= 0 THEN ((2 * a) + b) \div (2 * b)
    ELSE -(((2 * (-a)) + b) \div (2 * b))

\* Halves to the even neighbour, the rounding of later runtimes.
round_half_even(a, b) ==
    LET q == a \div b
        r == a % b
    IN  IF 2 * r < b THEN q
        ELSE IF 2 * r > b THEN q + 1
        ELSE IF q % 2 = 0 THEN q ELSE q + 1

\* round(tile_id / n_columns) of read_tiles.
round(a, b) == round_half_away(a, b)

(***************************************************************************)
(* Coordinate utilities.                                                   *)
(***************************************************************************)
flip_y_offbyone(zoom, y) == pow(2, zoom) - y

flip_y(zoom, y) == (pow(2, zoom) - 1) - y

maxx == 180

minx == -180

\* tile_size as the rational <<numerator, denominator>>: 4, 1 or 0.25.
tile_size(zoom_level) ==
    IF zoom_level = 1 THEN <<1, 1>>
    ELSE IF zoom_level = 2 THEN <<1, 4>>
    ELSE <<4, 1>>

n_columns(zoom_level) ==
    ceil_div(maxx - minx, tile_size(zoom_level)[1], tile_size(zoom_level)[2])

\* n_columns is a float, and so are tile_row and tile_col; both are whole, and
\* the integer columns of the tiles table store them as integers.
tile_row(zoom_level, tile_id) == round(tile_id, n_columns(zoom_level))

tile_col(zoom_level, tile_id) == tile_id % n_columns(zoom_level)

\* depth = 2 if (z>=2) else 1
depth_of(z) == IF z >= 2 THEN 2 ELSE 1

\* The id accumulated by the recursion of read_tiles over the directories.
RECURSIVE base_tile_id(_, _, _)
base_tile_id(depth, base, dirs) ==
    IF depth > 0 /\ Len(dirs) > 0
    THEN base_tile_id(depth - 1,
                      base + (int(Head(dirs)) * pow(10, depth * 3)),
                      Tail(dirs))
    ELSE base

\* gzip.GzipFile(..., compresslevel=6): magic and method, the payload, and the
\* length trailer; the deflate coding of the payload is not expanded.
gzip(bytes) == <<31, 139, 8>> \o bytes \o <<Len(bytes)>>

(***************************************************************************)
(* sqlite3 column affinities.                                              *)
(***************************************************************************)
\* A JSON scalar of metadata.json: a string or a number.
StrVal(s) == [t |-> "str", s |-> s]

IntVal(i) == [t |-> "int", i |-> i]

\* metadata.value is declared text: a number is stored as its decimal text.
text_affinity(v) == IF v.t = "int" THEN StrVal(ToString(v.i)) ELSE v

(***************************************************************************)
(* The inputs: source trees, metadata.json, keyword arguments.             *)
(***************************************************************************)
PNG == <<"p", "n", "g">>

JPG == <<"j", "p", "g">>

GPH == <<"g", "p", "h">>

\* kwargs.get(key) of an absent key.
None == <<"N", "o", "n", "e">>

\* A tile file <root>/<zoom>/<dirs...>/<file> holding <data>.
TileFile(zoom, dirs, file, data) ==
    [zoom |-> zoom, dirs |-> dirs, file |-> file, data |-> data]

\* The tile files a source tree is made of.
FileUniverse ==
    { TileFile(<<"0">>, << <<"0">> >>, <<"4", "5", ".", "p", "n", "g">>, <<1>>),
      TileFile(<<"0">>, << <<"0">> >>, <<"1", "3", "5", ".", "p", "n", "g">>, <<2>>),
      TileFile(<<"0">>, << <<"0">> >>, <<"0", "4", "5", ".", "p", "n", "g">>, <<3>>),
      TileFile(<<"0">>, << <<"0">> >>, <<"7", ".", "t", "x", "t">>, <<4>>),
      TileFile(<<"1">>, << <<"1">> >>, <<"3", ".", "p", "n", "g">>, <<5, 6>>),
      TileFile(<<"2">>, << <<"0">>, <<"1">> >>, <<"5", ".", "p", "n", "g">>, <<7>>),
      TileFile(<<"0">>, << <<"x">> >>, <<"1", ".", "p", "n", "g">>, <<8>>),
      TileFile(<<"0">>, << <<"0">> >>, <<"x", ".", "p", "n", "g">>, <<9>>) }

Trees == { t \in SUBSET FileUniverse : Cardinality(t) <= MaxFiles }

\* metadata.json: absent, or a flat object as a set of <<name, value>>.
NoMetadata == [present |-> FALSE, items |-> {}]

Metadata(items) == [present |-> TRUE, items |-> items]

MetadataFiles ==
    { NoMetadata,
      Metadata({ <<"name", StrVal("n")>>, <<"format", StrVal("png")>>,
                 <<"bounds", StrVal("-1,-1,1,1")>> }),
      Metadata({ <<"name", StrVal("n")>>, <<"minzoom", IntVal(0)>> }),
      Metadata({ <<"formatter", StrVal("f")>> }) }

\* The keyword arguments of disk_to_mbtiles and of mbtiles_to_disk.
ImportKwargs == [format : {None, PNG}, silent : BOOLEAN]

\* kwargs.get('scheme'): 'xyz', 'wms', or anything else.
Schemes == {"xyz", "wms", "none"}

ExportKwargs == [scheme : Schemes, format : {None, JPG}]

NoKwargs == [format |-> None, silent |-> FALSE, scheme |-> "none"]

(***************************************************************************)
(* State.                                                                  *)
(***************************************************************************)
VARIABLES
    tree,           \* the tile files under directory_path of disk_to_mbtiles
    metadata_json,  \* directory_path/metadata.json of disk_to_mbtiles
    import_kwargs,  \* disk_to_mbtiles: kwargs, while the call runs
    export_kwargs,  \* mbtiles_to_disk: kwargs of the last call that scanned
    archive,        \* mbtiles_file as committed on disk
    con,            \* the tables as the importing connection sees them
    pc,             \* "idle", "import" (in the walk) or "export" (in the scan)
    result,         \* how the last call ended, when none is running
    image_format,   \* disk_to_mbtiles: image_format
    todo,           \* read_tiles: the files not yet listed
    cwd,            \* read_tiles: the directory of the file listed last
    cursor,         \* mbtiles_to_disk: rows fetched from the tiles cursor
    out_dir,        \* directory_path of mbtiles_to_disk
    handles,        \* handles the last call opened, not yet released
    log,            \* warnings logged by the last disk_to_mbtiles
    probe           \* scratch of the pure-function specifications

vars == <<tree, metadata_json, import_kwargs, export_kwargs, archive, con, pc, result, image_format,
          todo, cwd, cursor, out_dir, handles, log, probe>>

inputs == <<tree, metadata_json>>

\* A row of the tiles table.
Row(z, x, y, data) ==
    [zoom_level |-> z, tile_column |-> x, tile_row |-> y, tile_data |-> data]

Key(r) == <<r.zoom_level, r.tile_column, r.tile_row>>

NoArchive ==
    [schema |-> FALSE, tiles |-> <<>>, metadata |-> {},
     optimized |-> FALSE]

NoConnection == [tiles |-> <<>>, metadata |-> {}]

NoDirectory ==
    [exists |-> FALSE, metadata_json |-> NoMetadata, layer_json |-> NoMetadata,
     tiles |-> {}]

\* A directory that is already there, with a tile and a metadata.json in it.
OldDirectory ==
    [exists |-> TRUE,
     metadata_json |-> Metadata({ <<"name", StrVal("old")>> }),
     layer_json |-> NoMetadata,
     tiles |-> { [path |-> << <<"0">>, <<"4", "5">>, <<"-", "2", ".", "j", "p", "g">> >>,
                  bytes |-> <<0>>] }]

NoResult == [op |-> "none", status |-> "none"]

Ended(op, status) == [op |-> op, status |-> status]

Init ==
    /\ tree \in Trees
    /\ metadata_json \in MetadataFiles
    /\ import_kwargs = NoKwargs
    /\ export_kwargs = NoKwargs
    /\ archive = NoArchive
    /\ con = NoConnection
    /\ pc = "idle"
    /\ result = NoResult
    /\ image_format = None
    /\ todo = {}
    /\ cwd = <<>>
    /\ cursor = 0
    /\ out_dir \in {NoDirectory, OldDirectory}
    /\ handles = {}
    /\ log = {}
    /\ probe = <<>>

(***************************************************************************)
(* disk_to_mbtiles.                                                        *)
(***************************************************************************)
\* The directory a tile file lies in, from the root.
dir_path(f) == <<f.zoom>> \o f.dirs

RECURSIVE common_prefix(_, _)
common_prefix(p, q) ==
    IF Len(p) = 0 \/ Len(q) = 0 \/ Head(p) # Head(q) THEN 0
    ELSE 1 + common_prefix(Tail(p), Tail(q))

\* The files the walk may list next: get_dirs and os.listdir give the entries
\* of a directory in any order, and a directory is finished before its
\* siblings are entered.
next_listed(files, dir) ==
    { f \in files : \A g \in files :
          common_prefix(dir_path(g), dir) <= common_prefix(dir_path(f), dir) }

\* int(zoom_dir) and every int(sub_dir) on the way to the file succeed.
dirs_parse(f) == IsInt(f.zoom) /\ \A i \in 1..Len(f.dirs) : IsInt(f.dirs[i])

\* tile_id = base_tile_id + int(file_name)
tile_id_of(f) ==
    base_tile_id(depth_of(int(f.zoom)), 0, f.dirs) + int(split_name(f.file))

\* The row read_tiles inserts for a file.
row_of(f) ==
    Row(int(f.zoom),
        tile_col(int(f.zoom), tile_id_of(f)),
        tile_row(int(f.zoom), tile_id_of(f)),
        gzip(f.data))

\* The unique index tiles_index on (zoom_level, tile_column, tile_row).
index_unchecked(rows, r) == FALSE

tiles_index_conflict(rows, r) == \E i \in 1..Len(rows) : Key(rows[i]) = Key(r)

\* if (ext != image_format): pass
skips_file(ext, fmt) == FALSE

\* for name, value in metadata.items(): insert into metadata (name, value)
metadata_rows_swapped(items) ==
    { << IF m[2].t = "int" THEN ToString(m[2].i) ELSE m[2].s, StrVal(m[1]) >> :
        m \in items }

metadata_rows(items) == { <<m[1], text_affinity(m[2])>> : m \in items }

\* except IOError: a missing metadata.json is logged and the import goes on.
missing_metadata_fatal == FALSE

missing_metadata_recovered == TRUE

\* disk_to_mbtiles ends by an uncaught exception: the open transaction is
\* lost with the connection, the locals with the frame.
Abort(status) ==
    /\ pc' = "idle"
    /\ result' = Ended("import", status)
    /\ con' = NoConnection
    /\ todo' = {}
    /\ cwd' = <<>>
    /\ import_kwargs' = NoKwargs
    /\ image_format' = None

\* Lines 106-129: connect, pragmas, schema, metadata.json.
disk_to_mbtiles_begin ==
    /\ pc = "idle"
    /\ IF archive.schema
       THEN \* create table tiles: the table already exists
            /\ Abort("OperationalError")
            /\ archive' = archive
            /\ handles' = {"import.con"}
            /\ log' = log
       ELSE IF ~metadata_json.present /\ ~missing_metadata_recovered
       THEN /\ Abort("IOError")
            /\ archive' = [archive EXCEPT !.schema = TRUE]
            /\ handles' = {"import.con"}
            /\ log' = log
       ELSE \E kwargs \in ImportKwargs :
            /\ import_kwargs' = kwargs
            /\ archive' = [archive EXCEPT !.schema = TRUE]
            /\ con' = [tiles |-> <<>>,
                       metadata |-> metadata_rows(metadata_json.items)]
            /\ image_format' =
                   IF metadata_json.present THEN kwargs.format
                   ELSE IF kwargs.format = None THEN GPH ELSE kwargs.format
            /\ log' = IF kwargs.silent \/ metadata_json.present THEN {}
                      ELSE {"warning"}
            /\ handles' = {"import.con"} \cup
                   (IF metadata_json.present THEN {"import.metadata.json"} ELSE {})
            /\ pc' = "import"
            /\ todo' = tree
            /\ cwd' = <<>>
            /\ result' = NoResult
    /\ UNCHANGED <<inputs, export_kwargs, cursor, out_dir, probe>>

\* Lines 64-102 and 131-134: one file of the walk.
read_tile(f, io_ok) ==
    /\ pc = "import"
    /\ f \in next_listed(todo, cwd)
    /\ IF ~dirs_parse(f) \/ FirstDot(f.file) = 0
       THEN \* int(zoom_dir), int(sub_dir), or the unpacking of split('.', 1)
            /\ Abort("ValueError")
            /\ handles' = handles
       ELSE IF skips_file(split_ext(f.file), image_format)
       THEN /\ todo' = todo \ {f}
            /\ cwd' = dir_path(f)
            /\ UNCHANGED <<pc, result, con, handles, import_kwargs, image_format>>
       ELSE IF ~io_ok
       THEN \* f.read() fails: f.close() is not reached
            /\ Abort("IOError")
            /\ handles' = handles \cup {"import.tile"}
       ELSE IF ~IsInt(split_name(f.file))
       THEN \* int(file_name), after f.close()
            /\ Abort("ValueError")
            /\ handles' = handles
       ELSE IF tiles_index_conflict(con.tiles, row_of(f))
       THEN /\ Abort("IntegrityError")
            /\ handles' = handles
       ELSE /\ con' = [con EXCEPT !.tiles = Append(@, row_of(f))]
            /\ todo' = todo \ {f}
            /\ cwd' = dir_path(f)
            /\ UNCHANGED <<pc, result, handles, import_kwargs, image_format>>
    /\ UNCHANGED <<inputs, export_kwargs, archive, cursor, out_dir, log, probe>>

\* Line 139: optimize_database; ANALYZE commits the open transaction.
disk_to_mbtiles_end ==
    /\ pc = "import"
    /\ todo = {}
    /\ archive' = [archive EXCEPT !.tiles = con.tiles,
                                  !.metadata = con.metadata,
                                  !.optimized = TRUE]
    /\ con' = NoConnection
    /\ pc' = "idle"
    /\ result' = Ended("import", "ok")
    /\ import_kwargs' = NoKwargs
    /\ image_format' = None
    /\ cwd' = <<>>
    /\ UNCHANGED <<inputs, export_kwargs, todo, cursor, out_dir, handles, log,
                   probe>>

(***************************************************************************)
(* mbtiles_to_disk.                                                        *)
(***************************************************************************)
\* kwargs.get('format', 'png')
out_format(kwargs) == IF kwargs.format = None THEN PNG ELSE kwargs.format

\* Lines 178-192: tile_dir below base_path.
tile_dir_nomod(scheme, z, x, y) ==
    IF scheme = "wms"
    THEN << fmt0(2, z),
            fmt0(3, x \div 1000000),
            fmt0(3, x \div 1000),
            fmt0(3, x % 1000),
            fmt0(3, y \div 1000000),
            fmt0(3, y \div 1000) >>
    ELSE << str(z), str(x) >>

tile_dir(scheme, z, x, y) ==
    IF scheme = "wms"
    THEN << fmt0(2, z),
            fmt0(3, x \div 1000000),
            fmt0(3, (x \div 1000) % 1000),
            fmt0(3, x % 1000),
            fmt0(3, y \div 1000000),
            fmt0(3, (y \div 1000) % 1000) >>
    ELSE << str(z), str(x) >>

\* Lines 195-198: the file name of the tile.
tile_name(scheme, z, y, fmt) ==
    IF scheme = "wms" THEN fmt0(3, y % 1000) \o <<".">> \o fmt
    ELSE IF scheme = "xyz" THEN str(flip_y(z, y)) \o <<".">> \o fmt
    ELSE str(y) \o <<".">> \o fmt

tile_path(kwargs, t) ==
    tile_dir(kwargs.scheme, t.zoom_level, t.tile_column, t.tile_row)
        \o << tile_name(kwargs.scheme, t.zoom_level, t.tile_row,
                        out_format(kwargs)) >>

\* f.write(t[3]): the stored blob as it is.
written_bytes_gunzip(blob) == SubSeq(blob, 4, Len(blob) - 1)

written_bytes(blob) == blob

\* dict(con.execute('select name, value from metadata;').fetchall())
metadata_dict(rows) ==
    { m \in rows : \A k \in rows : k[1] = m[1] => k = m }

\* open(tile, 'wb'), write, close: the file is created or replaced.
write_file(files, path, bytes) ==
    { g \in files : g.path # path } \cup {[path |-> path, bytes |-> bytes]}

\* metadata.get('formatter'), when it is a non-empty string.
formatter_of(items) == { m \in items : m[1] = "formatter" /\ m[2] # StrVal("") }

\* os.mkdir(directory_path) refuses a path that exists.
mkdir_refuses_never(dir) == FALSE

mkdir_refuses(dir) == dir.exists

\* Lines 151-173: connect, mkdir, metadata.json, layer.json, the cursor.
mbtiles_to_disk_begin(schemes) ==
    /\ pc = "idle"
    /\ handles' = {"export.con"} \cup
           (IF ~mkdir_refuses(out_dir) /\ archive.schema
            THEN {"export.metadata.json"} \cup
                 (IF formatter_of(archive.metadata) # {}
                  THEN {"export.layer.json"} ELSE {})
            ELSE {})
    /\ IF mkdir_refuses(out_dir)
       THEN /\ result' = Ended("export", "OSError")
            /\ UNCHANGED <<out_dir, export_kwargs, cursor, pc>>
       ELSE IF ~archive.schema
       THEN \* select name, value from metadata: no such table
            /\ result' = Ended("export", "OperationalError")
            /\ out_dir' = [out_dir EXCEPT !.exists = TRUE]
            /\ UNCHANGED <<export_kwargs, cursor, pc>>
       ELSE \E kwargs \in ExportKwargs :
            /\ kwargs.scheme \in schemes
            /\ out_dir' =
                [out_dir EXCEPT
                    !.exists = TRUE,
                    !.metadata_json = Metadata(metadata_dict(archive.metadata)),
                    !.layer_json =
                        IF formatter_of(archive.metadata) # {}
                        THEN Metadata(formatter_of(metadata_dict(archive.metadata)))
                        ELSE @]
            /\ export_kwargs' = kwargs
            /\ pc' = "export"
            /\ cursor' = 0
            /\ result' = NoResult
    /\ UNCHANGED <<inputs, import_kwargs, archive, con, image_format, todo, cwd,
                   log, probe>>

\* Lines 174-205: one row of the cursor.
export_tile ==
    /\ pc = "export"
    /\ cursor < Len(archive.tiles)
    /\ LET t == archive.tiles[cursor + 1]
       IN  out_dir' = [out_dir EXCEPT !.tiles =
               write_file(@, tile_path(export_kwargs, t),
                          written_bytes(t.tile_data))]
    /\ cursor' = cursor + 1
    /\ UNCHANGED <<inputs, import_kwargs, export_kwargs, archive, con, pc,
                   result, image_format, todo, cwd, handles, log, probe>>

\* fetchone() gives None: the loop and the call end.
mbtiles_to_disk_end ==
    /\ pc = "export"
    /\ cursor = Len(archive.tiles)
    /\ pc' = "idle"
    /\ result' = Ended("export", "ok")
    /\ UNCHANGED <<inputs, import_kwargs, export_kwargs, archive, con,
                   image_format, todo, cwd, cursor, out_dir, handles, log, probe>>

\* Neither entry point closes its connection, nor the files it opens for
\* metadata.json and layer.json: the runtime releases them when it reclaims
\* the objects, at the end of the call or later, or not before it exits.
finalize ==
    /\ pc = "idle"
    /\ handles # {}
    /\ handles' = {}
    /\ UNCHANGED <<inputs, import_kwargs, export_kwargs, archive, con, pc,
                   result, image_format, todo, cwd, cursor, out_dir, log, probe>>

Next ==
    \/ disk_to_mbtiles_begin
    \/ \E f \in FileUniverse, io_ok \in BOOLEAN : read_tile(f, io_ok)
    \/ disk_to_mbtiles_end
    \/ mbtiles_to_disk_begin(Schemes)
    \/ export_tile
    \/ mbtiles_to_disk_end
    \/ finalize

Spec == Init /\ [][Next]_vars

(***************************************************************************)
(* Specification of flip_y alone: a zoom and a row below 2^zoom, flipped   *)
(* and flipped again.                                                      *)
(***************************************************************************)
Quiet ==
    /\ tree = {}
    /\ metadata_json = NoMetadata
    /\ import_kwargs = NoKwargs
    /\ export_kwargs = NoKwargs
    /\ archive = NoArchive
    /\ con = NoConnection
    /\ pc = "idle"
    /\ result = NoResult
    /\ image_format = None
    /\ todo = {}
    /\ cwd = <<>>
    /\ cursor = 0
    /\ out_dir = NoDirectory
    /\ handles = {}
    /\ log = {}

InitFlip ==
    /\ Quiet
    /\ \E z \in 0..MaxZoom : \E r \in 0..(pow(2, z) - 1) :
           probe = [zoom |-> z, row |-> r, flips |-> 0, y |-> r]

flip_row ==
    /\ probe.flips < 2
    /\ probe' = [probe EXCEPT !.flips = @ + 1, !.y = flip_y(probe.zoom, @)]
    /\ UNCHANGED <<inputs, import_kwargs, export_kwargs, archive, con, pc,
                   result, image_format, todo, cwd, cursor, out_dir, handles, log>>

NextFlip == flip_row

SpecFlip == InitFlip /\ [][NextFlip]_vars

(***************************************************************************)
(* Specification of the wms layout: mbtiles_to_disk(scheme='wms') on an    *)
(* archive that holds one tile anywhere in the layout's range.             *)
(***************************************************************************)
WmsZooms == {0, 5, 99}

WmsCoords == {0, 999, 1000, 1234567, 7654321, 999999999}

InitWms ==
    /\ tree = {}
    /\ metadata_json = NoMetadata
    /\ import_kwargs = NoKwargs
    /\ export_kwargs = NoKwargs
    /\ \E z \in WmsZooms, x \in WmsCoords, y \in WmsCoords :
           archive = [schema |-> TRUE, tiles |-> << Row(z, x, y, gzip(<<1>>)) >>,
                      metadata |-> {}, optimized |-> TRUE]
    /\ con = NoConnection
    /\ pc = "idle"
    /\ result = NoResult
    /\ image_format = None
    /\ todo = {}
    /\ cwd = <<>>
    /\ cursor = 0
    /\ out_dir = NoDirectory
    /\ handles = {}
    /\ log = {}
    /\ probe = <<>>

NextWms ==
    \/ mbtiles_to_disk_begin({"wms"})
    \/ export_tile
    \/ mbtiles_to_disk_end

SpecWms == InitWms /\ [][NextWms]_vars

(***************************************************************************)
(* Specification of the coordinate derivation: disk_to_mbtiles on trees of *)
(* two tiles of one zoom level whose ids lie around the multiples and the  *)
(* half multiples of n_columns.                                            *)
(***************************************************************************)
CoordZooms == {0, 1, 2, 3}

CoordIds(z) ==
    { (q * n_columns(z)) + c :
        q \in 0..MaxQuot,
        c \in {0, (n_columns(z) \div 2) - 1, n_columns(z) \div 2,
               n_columns(z) - 1} }

\* The file of the import layout that read_tiles gives the id tile_id.
FileOfId(z, tile_id) ==
    TileFile(str(z),
             IF depth_of(z) = 2
             THEN << str(tile_id \div 1000000), str((tile_id \div 1000) % 1000) >>
             ELSE << str(tile_id \div 1000) >>,
             str(tile_id % 1000) \o <<".">> \o PNG,
             << tile_id % 7 >>)

InitCoord ==
    /\ \E z \in CoordZooms : \E i \in CoordIds(z), j \in CoordIds(z) :
           i < j /\ tree = {FileOfId(z, i), FileOfId(z, j)}
    /\ metadata_json = NoMetadata
    /\ import_kwargs = NoKwargs
    /\ export_kwargs = NoKwargs
    /\ archive = NoArchive
    /\ con = NoConnection
    /\ pc = "idle"
    /\ result = NoResult
    /\ image_format = None
    /\ todo = {}
    /\ cwd = <<>>
    /\ cursor = 0
    /\ out_dir = NoDirectory
    /\ handles = {}
    /\ log = {}
    /\ probe = <<>>

NextCoord ==
    \/ disk_to_mbtiles_begin
    \/ \E f \in tree, io_ok \in BOOLEAN : read_tile(f, io_ok)
    \/ disk_to_mbtiles_end

SpecCoord == InitCoord /\ [][NextCoord]_vars

(***************************************************************************)
(* Properties.                                                             *)
(***************************************************************************)
\* The export has streamed every row of the archive.
ExportComplete ==
    \/ pc = "export" /\ cursor = Len(archive.tiles)
    \/ result = Ended("export", "ok")

\* The rows of a tiles table, as a set.
RowSet(rows) == { rows[i] : i \in 1..Len(rows) }

UniqueKeys(rows) ==
    \A i \in 1..Len(rows), j \in 1..Len(rows) :
        Key(rows[i]) = Key(rows[j]) => i = j

\* Every directory and file name of the tree is an integer.
AllParse(t) ==
    \A f \in t : dirs_parse(f) /\ FirstDot(f.file) > 0 /\ IsInt(split_name(f.file))

\* No two files of the tree resolve to the same (zoom, column, row).
NoCollision(t) ==
    \A f \in t, g \in t : Key(row_of(f)) = Key(row_of(g)) => f = g

\* C7: flip_y is an involution on the rows 0 .. 2^z - 1 of a zoom level z:
\* the flipped row lies in 0 .. 2^z - 1 again and equals (2^z - 1) - r, and
\* flipping it once more gives r back.
C7_FlipInvolution ==
    /\ probe.flips = 1 =>
          /\ probe.y \in 0..(pow(2, probe.zoom) - 1)
          /\ probe.y + probe.row = pow(2, probe.zoom) - 1
    /\ probe.flips = 2 => probe.y = probe.row

C7_Witness == probe.flips = 2 /\ probe.zoom = 3 /\ probe.row = 5

\* Three decimal digits of 0 <= n < 1000, and two of 0 <= n < 100.
Digits3(n) ==
    << Digits[(n \div 100) + 1], Digits[((n \div 10) % 10) + 1], Digits[(n % 10) + 1] >>

Digits2(n) == << Digits[(n \div 10) + 1], Digits[(n % 10) + 1] >>

\* The path the wms layout gives the tile (z, x, y).
WmsPath(z, x, y, fmt) ==
    << Digits2(z),
       Digits3(x \div 1000000), Digits3((x \div 1000) % 1000), Digits3(x % 1000),
       Digits3(y \div 1000000), Digits3((y \div 1000) % 1000),
       Digits3(y % 1000) \o <<".">> \o fmt >>

\* C6: with scheme='wms' a stored tile with 0 <= column, row < 10^9 and
\* 0 <= zoom < 100 is written to <zoom, 2 digits>/<column div 10^6>/
\* <(column div 1000) mod 1000>/<column mod 1000>/<row div 10^6>/
\* <(row div 1000) mod 1000>/<row mod 1000>.<format>, every group of 3 digits;
\* column 1234567, row 7654321, zoom 5 gives 05/001/234/567/007/654/321.<format>.
C6_WmsPath ==
    (ExportComplete /\ export_kwargs.scheme = "wms") =>
        /\ out_dir.tiles =
               { [path |-> WmsPath(t.zoom_level, t.tile_column, t.tile_row,
                                   out_format(export_kwargs)),
                  bytes |-> t.tile_data] : t \in RowSet(archive.tiles) }
        /\ \A t \in RowSet(archive.tiles) :
               Key(t) = <<5, 1234567, 7654321>> =>
                   \E g \in out_dir.tiles :
                       g.path = << <<"0", "5">>, <<"0", "0", "1">>, <<"2", "3", "4">>,
                                   <<"5", "6", "7">>, <<"0", "0", "7">>,
                                   <<"6", "5", "4">>,
                                   <<"3", "2", "1", ".">> \o out_format(export_kwargs) >>

C6_Witness ==
    /\ result = Ended("export", "ok")
    /\ export_kwargs.scheme = "wms"
    /\ Key(archive.tiles[1]) = <<5, 1234567, 7654321>>
    /\ Cardinality(out_dir.tiles) = 1

\* The files of the tree have pairwise distinct tile ids within a zoom level.
DistinctIds(t) ==
    \A f \in t, g \in t :
        (int(f.zoom) = int(g.zoom) /\ tile_id_of(f) = tile_id_of(g)) => f = g

\* C10: within a zoom level the derivation tile_col = tile_id mod n_columns,
\* tile_row = round(tile_id / n_columns) (halves away from zero), with
\* n_columns 90, 360, 1440, 90 for zoom 0, 1, 2, >= 3, gives distinct tile ids
\* distinct (tile_col, tile_row); so the import of a tree whose files have
\* distinct tile ids never ends in a uniqueness violation and stores exactly
\* one row per file.
C10_CoordInjective ==
    /\ n_columns(0) = 90 /\ n_columns(1) = 360 /\ n_columns(2) = 1440
    /\ n_columns(3) = 90
    /\ (AllParse(tree) /\ DistinctIds(tree)) =>
          /\ NoCollision(tree)
          /\ result # Ended("import", "IntegrityError")
          /\ pc = "import" =>
                 /\ Len(con.tiles) = Cardinality(tree \ todo)
                 /\ RowSet(con.tiles) = { row_of(f) : f \in tree \ todo }
          /\ result = Ended("import", "ok") =>
                 /\ Len(archive.tiles) = Cardinality(tree)
                 /\ RowSet(archive.tiles) = { row_of(f) : f \in tree }

\* Two tiles of one column, a whole number of rows apart, both stored.
C10_Witness ==
    /\ result = Ended("import", "ok")
    /\ Len(archive.tiles) = 2
    /\ archive.tiles[1].tile_column = archive.tiles[2].tile_column
    /\ archive.tiles[1].tile_column = n_columns(archive.tiles[1].zoom_level) \div 2
    /\ archive.tiles[1].tile_row # archive.tiles[2].tile_row

\* The file the xyz layout gives a tile of the source tree.
XyzFile(f, fmt) ==
    LET z == int(f.zoom)
        x == tile_id_of(f) % n_columns(z)
        y == round_half_away(tile_id_of(f), n_columns(z))
    IN  [path |-> << str(z), str(x), str((pow(2, z) - 1) - y) \o <<".">> \o fmt >>,
         bytes |-> <<31, 139, 8>> \o f.data \o <<Len(f.data)>>]

\* Integer-named directories, numeric file names with one extension, no two
\* files at one coordinate.
WellFormed(t) ==
    /\ AllParse(t)
    /\ NoCollision(t)
    /\ \A f \in t : split_ext(f.file) = PNG

\* C1: for a well-formed source tree, disk_to_mbtiles into a fresh archive and
\* then mbtiles_to_disk with scheme='xyz' into a directory that did not exist
\* produce, for every tile file of the tree, a file <z>/<x>/<y>.<format> that
\* holds the compressed form of the tile's bytes, and no other tile file.
C1_TileRoundTrip ==
    (WellFormed(tree) /\ archive.optimized /\ ExportComplete
        /\ export_kwargs.scheme = "xyz") =>
        /\ out_dir.tiles = { XyzFile(f, out_format(export_kwargs)) : f \in tree }
        /\ Cardinality(out_dir.tiles) = Cardinality(tree)

C1_Witness ==
    /\ WellFormed(tree)
    /\ Cardinality(tree) = 2
    /\ archive.optimized
    /\ result = Ended("export", "ok")
    /\ export_kwargs.scheme = "xyz"
    /\ \E g \in out_dir.tiles : g.path[3][1] # "-"

\* C2 as stated: for any flat metadata.json, disk_to_mbtiles followed by
\* mbtiles_to_disk yields a metadata.json with exactly the key/value pairs of
\* the input.
C2_MetadataRoundTrip ==
    (metadata_json.present /\ archive.optimized /\ ExportComplete) =>
        out_dir.metadata_json = Metadata(metadata_json.items)

\* C2 amended: for any flat metadata.json whose values are all strings,
\* disk_to_mbtiles followed by mbtiles_to_disk yields a metadata.json with
\* exactly the key/value pairs of the input.
C2_StringMetadataRoundTrip ==
    (/\ metadata_json.present
     /\ \A m \in metadata_json.items : m[2].t = "str"
     /\ archive.optimized
     /\ ExportComplete) =>
        out_dir.metadata_json = Metadata(metadata_json.items)

C2_Witness ==
    /\ metadata_json.present
    /\ \A m \in metadata_json.items : m[2].t = "str"
    /\ Cardinality(metadata_json.items) = 3
    /\ archive.optimized
    /\ result = Ended("export", "ok")
    /\ out_dir.metadata_json.items = metadata_json.items

\* C3: mbtiles_to_disk on a directory_path that exists fails, and creates,
\* overwrites or changes nothing: no metadata.json, no layer.json, no tile
\* file, nothing of what the directory holds.
C3_ExistingDirectoryRefused ==
    [][ (pc = "idle" /\ out_dir.exists) =>
            /\ pc' # "export"
            /\ out_dir' = out_dir
            /\ "export.con" \in handles' =>
                   /\ result' = Ended("export", "OSError")
                   /\ archive' = archive ]_vars

C3_Witness ==
    /\ result = Ended("export", "OSError")
    /\ out_dir = OldDirectory
    /\ archive.optimized
    /\ Len(archive.tiles) > 0

\* C4, the call that starts on a tree without metadata.json: it goes on to
\* the walk with an empty metadata table, and warns unless it is silent.
C4_Step ==
    (pc = "idle" /\ ~metadata_json.present /\ ~archive.schema /\ archive'.schema) =>
        /\ pc' = "import"
        /\ con'.metadata = {}
        /\ log' = IF import_kwargs'.silent THEN {} ELSE {"warning"}

\* C4, the states of such a call: the metadata table stays empty, a call that
\* ends well has stored every tile and run the optimize pass, and a call that
\* ends by a ValueError or a uniqueness violation does so for the tree's names.
C4_State ==
    ~metadata_json.present =>
        /\ pc = "import" => con.metadata = {}
        /\ result = Ended("import", "ok") =>
               /\ archive.metadata = {}
               /\ archive.optimized
               /\ Len(archive.tiles) = Cardinality(tree)
               /\ RowSet(archive.tiles) = { row_of(f) : f \in tree }
        /\ (result.op = "import" /\ result.status \in {"ValueError", "IntegrityError"})
               => ~(AllParse(tree) /\ NoCollision(tree))

\* C4: without metadata.json in the source directory disk_to_mbtiles still
\* succeeds: the missing file is recovered from (a warning, in non-silent mode
\* only), the metadata table is left empty, every tile of the tree is imported
\* and the optimize pass runs.
C4_MissingMetadata == []C4_State /\ [][C4_Step]_vars

C4_Witness ==
    /\ ~metadata_json.present
    /\ result = Ended("import", "ok")
    /\ log = {"warning"}
    /\ Cardinality(tree) = 2
    /\ Len(archive.tiles) = 2
    /\ archive.optimized

\* C5: no two rows of the tiles table share (zoom_level, tile_column,
\* tile_row), in the importing connection and in the archive; the insert of a
\* tile at the coordinate of a stored tile fails with a uniqueness violation,
\* and adds or replaces no row.
C5_UniqueTiles ==
    /\ UniqueKeys(con.tiles)
    /\ UniqueKeys(archive.tiles)
    /\ pc = "import" => Len(con.tiles) = Cardinality(tree \ todo)
    /\ result = Ended("import", "IntegrityError") =>
           /\ ~NoCollision({ f \in tree : AllParse({f}) })
           /\ archive.tiles = <<>>

C5_Witness ==
    /\ result = Ended("import", "IntegrityError")
    /\ archive.schema
    /\ Cardinality(tree) = 2

\* C8: during the import a file whose extension is not the requested format
\* is skipped: the tiles table holds rows only for files whose extension
\* equals format.
C8_MismatchSkipped ==
    (pc = "import" /\ import_kwargs.format = PNG) =>
        \A r \in RowSet(con.tiles) :
            \E f \in tree : split_ext(f.file) = PNG /\ AllParse({f}) /\ r = row_of(f)

\* C9: every handle disk_to_mbtiles or mbtiles_to_disk acquires (the archive
\* connection, each tile and metadata file handle) is released by the time
\* the call exits, on every exit path.
C9_HandlesReleased == pc = "idle" => handles = {}

====
